---- MODULE Spec2Model ----
(***************************************************************************)
(* Transition-timeline and effort-attribution engine of                    *)
(* jira_issues_with_sprints.py: calculate_durations,                       *)
(* calculate_transition_data, calculate_duration_components,               *)
(* accumulate_effort_per_status and the process_issues driver.             *)
(*                                                                         *)
(* Time is counted in whole seconds.  A timestamp string is modelled by    *)
(* the parts of its text that the code can tell apart: the wall-clock      *)
(* prefix YYYY-MM-DDTHH:MM:SS (local, seconds since 2024-01-01T00:00:00),  *)
(* whether a fractional part ".000" follows (frac), and the UTC offset     *)
(* (off, seconds east of UTC).  A malformed string and a JSON null are     *)
(* the two other kinds.                                                    *)
(***************************************************************************)
EXTENDS Integers, Sequences, FiniteSets, TLC

VARIABLES
    issue_data,                  \* the issue document handed to the core
    pc,                          \* position of the running computation
    status_changes,              \* calculate_durations: (from, to, created) triples
    k,                           \* index of the loop that is running
    last_timestamp,              \* calculate_durations: the cursor
    durations,                   \* calculate_durations: the records emitted
    transition_durations,        \* calculate_transition_data: key -> total
    transition_execution_times,  \* calculate_transition_data: key -> count
    status_change_dates,         \* accumulate_effort_per_status: the timeline
    initial_status,              \* accumulate_effort_per_status
    time_spent_per_status,       \* accumulate_effort_per_status: status -> seconds
    worklog,                     \* the worklog entry handled last
    current_status,              \* the status chosen for that worklog
    worklogs_seen,               \* number of worklog entries handled
    seconds_seen,                \* sum of timeSpentSeconds over those entries
    batch,                       \* process_issues: the issues to process
    pos,                         \* process_issues: index of the next issue
    outcomes,                    \* process_issues: what became of each issue
    fn,                          \* the pure function that was called
    arg,                         \* its argument
    result,                      \* what it returned
    start_at,                    \* fetch_all_worklogs: the startAt of the next request
    all_worklogs,                \* fetch_all_worklogs: the worklogs collected so far
    exchanges                    \* fetch_all_worklogs: the requests made and their responses

vars == << issue_data, pc, status_changes, k, last_timestamp, durations,
           transition_durations, transition_execution_times,
           status_change_dates, initial_status, time_spent_per_status,
           worklog, current_status, worklogs_seen, seconds_seen,
           batch, pos, outcomes, fn, arg, result, start_at, all_worklogs, exchanges >>

durVars == << status_changes, k, last_timestamp, durations,
              transition_durations, transition_execution_times >>

effortVars == << status_change_dates, initial_status, time_spent_per_status,
                 worklog, current_status, worklogs_seen, seconds_seen >>

batchVars == << batch, pos, outcomes >>

callVars == << fn, arg, result >>

fetchVars == << start_at, all_worklogs, exchanges >>

(***************************************************************************)
(* Bounds of the model.                                                    *)
(***************************************************************************)
MaxHistories == 2
MaxWorklogs == 2
MaxBatch == 3

(***************************************************************************)
(* Values.                                                                 *)
(***************************************************************************)
\* Python's None where a string is expected (JSON null, or a missing key read with .get).
None == "<None>"

Hour == 60 * 60
Day == 24 * Hour
\* +05:30, the offset of the timestamps in the documented scenario.
Ist == 5 * Hour + 30 * 60

Iso(local, frac, off) == [kind |-> "iso", local |-> local, frac |-> frac, off |-> off]
Malformed == [kind |-> "bad", local |-> 0, frac |-> FALSE, off |-> 0]
NullTime == [kind |-> "null", local |-> 0, frac |-> FALSE, off |-> 0]

\* datetime.strptime(ts, '%Y-%m-%dT%H:%M:%S.%f%z'): the format demands the
\* fractional part; a string without it, or a malformed one, raises ValueError
\* and None raises TypeError.
strptime_result(ts) ==
    IF ts.kind = "null" THEN "TypeError"
    ELSE IF ts.kind = "iso" /\ ts.frac THEN "ok"
    ELSE "ValueError"

\* The aware datetime strptime returns, as an absolute instant (seconds, UTC).
strptime(ts) == ts.local - ts.off

\* dateutil's parser.isoparse: the fractional part is optional.
isoparse_ok(ts) == ts.kind = "iso"

StatusItem(from, to) == [field |-> "status", fromString |-> from, toString |-> to]
OtherItem == [field |-> "priority", fromString |-> "Low", toString |-> "High"]

RECURSIVE SumSeq(_)
SumSeq(s) == IF s = << >> THEN 0 ELSE Head(s) + SumSeq(Tail(s))

RECURSIVE Flatten(_)
Flatten(ss) == IF ss = << >> THEN << >> ELSE Head(ss) \o Flatten(Tail(ss))

SeqsUpTo(S, n) == UNION { [1..m -> S] : m \in 0..n }

EmptyMap == [x \in {} |-> 0]

(***************************************************************************)
(* calculate_durations                                                     *)
(***************************************************************************)
\* The list comprehension of lines 177-182: every item of every history in
\* changelog order, kept when its field is 'status'.
HistoryChanges_AllFields(history) ==
    [i \in 1..Len(history.items) |->
        [fromString |-> history.items[i].fromString,
         toString |-> history.items[i].toString,
         created |-> history.created]]
HistoryChanges(history) ==
    LET items == history.items
        RECURSIVE Keep(_)
        Keep(i) ==
            IF i > Len(items) THEN << >>
            ELSE (IF items[i].field = "status"
                  THEN << [fromString |-> items[i].fromString,
                           toString |-> items[i].toString,
                           created |-> history.created] >>
                  ELSE << >>) \o Keep(i + 1)
    IN Keep(1)

StatusChangesOf(issue) ==
    Flatten([h \in 1..Len(issue.histories) |-> HistoryChanges(issue.histories[h])])

\* Line 194: the duration of a record.
RecordDuration_Clamped(curr_time_dt, last) ==
    IF curr_time_dt < last THEN 0 ELSE curr_time_dt - last
RecordDuration(curr_time_dt, last) == curr_time_dt - last

\* Line 196: the cursor after a record was emitted.
CursorAfter_Stale(curr_time_dt, last) == last
CursorAfter(curr_time_dt, last) == curr_time_dt

\* Lines 174-185 with the creation timestamp parsed before the emptiness
\* tests instead of after them.
NoStatusChanges_ParsesFirst ==
    /\ pc = "calculate_durations"
    /\ StatusChangesOf(issue_data) = << >>
    /\ status_changes' = << >>
    /\ durations' = << >>
    /\ k' = 1
    /\ pc' = IF strptime_result(issue_data.created) = "ok"
             THEN "calculate_transition_data" ELSE "raised"
    /\ UNCHANGED << issue_data, last_timestamp, transition_durations,
                    transition_execution_times, effortVars, batchVars, callVars, fetchVars >>

\* Lines 172-176 and 183-185: nothing to compute, the call returns [].
NoStatusChanges ==
    /\ pc = "calculate_durations"
    /\ StatusChangesOf(issue_data) = << >>
    /\ status_changes' = << >>
    /\ durations' = << >>
    /\ k' = 1
    /\ pc' = "calculate_transition_data"
    /\ UNCHANGED << issue_data, last_timestamp, transition_durations,
                    transition_execution_times, effortVars, batchVars, callVars, fetchVars >>

\* Line 187 raises: the creation timestamp is parsed outside the try block.
CreatedRaises ==
    /\ pc = "calculate_durations"
    /\ StatusChangesOf(issue_data) # << >>
    /\ strptime_result(issue_data.created) # "ok"
    /\ status_changes' = StatusChangesOf(issue_data)
    /\ pc' = "raised"
    /\ UNCHANGED << issue_data, k, last_timestamp, durations, transition_durations,
                    transition_execution_times, effortVars, batchVars, callVars, fetchVars >>

\* Lines 177-187: the status changes are collected and the cursor starts at
\* the creation instant.
EnterLoop ==
    /\ pc = "calculate_durations"
    /\ StatusChangesOf(issue_data) # << >>
    /\ strptime_result(issue_data.created) = "ok"
    /\ status_changes' = StatusChangesOf(issue_data)
    /\ durations' = << >>
    /\ last_timestamp' = strptime(issue_data.created)
    /\ k' = 1
    /\ pc' = "loop"
    /\ UNCHANGED << issue_data, transition_durations, transition_execution_times,
                    effortVars, batchVars, callVars, fetchVars >>

\* Lines 188-196: one iteration whose timestamp parses.
LoopEmit ==
    /\ pc = "loop"
    /\ k <= Len(status_changes)
    /\ strptime_result(status_changes[k].created) = "ok"
    /\ LET curr_time_dt == strptime(status_changes[k].created)
       IN /\ durations' = Append(durations,
                 [from |-> status_changes[k].fromString,
                  to |-> status_changes[k].toString,
                  duration |-> RecordDuration(curr_time_dt, last_timestamp)])
          /\ last_timestamp' = CursorAfter(curr_time_dt, last_timestamp)
    /\ k' = k + 1
    /\ UNCHANGED << issue_data, pc, status_changes, transition_durations,
                    transition_execution_times, effortVars, batchVars, callVars, fetchVars >>

\* Lines 197-198: ValueError is caught, the event is skipped.
LoopSkip ==
    /\ pc = "loop"
    /\ k <= Len(status_changes)
    /\ strptime_result(status_changes[k].created) = "ValueError"
    /\ k' = k + 1
    /\ UNCHANGED << issue_data, pc, status_changes, last_timestamp, durations,
                    transition_durations, transition_execution_times,
                    effortVars, batchVars, callVars, fetchVars >>

\* Line 190 with curr_time None: TypeError is not a ValueError, so the except
\* clause of line 197 does not catch it and the call raises.
LoopRaises ==
    /\ pc = "loop"
    /\ k <= Len(status_changes)
    /\ strptime_result(status_changes[k].created) = "TypeError"
    /\ pc' = "raised"
    /\ UNCHANGED << issue_data, status_changes, k, last_timestamp, durations,
                    transition_durations, transition_execution_times,
                    effortVars, batchVars, callVars, fetchVars >>

\* Line 199: return durations; append_report_data hands them to
\* calculate_transition_data (line 462).
LoopReturn ==
    /\ pc = "loop"
    /\ k > Len(status_changes)
    /\ k' = 1
    /\ pc' = "calculate_transition_data"
    /\ UNCHANGED << issue_data, status_changes, last_timestamp, durations,
                    transition_durations, transition_execution_times,
                    effortVars, batchVars, callVars, fetchVars >>

(***************************************************************************)
(* calculate_transition_data                                               *)
(***************************************************************************)
\* Lines 538-543: the total of a key after one more record.
AddDuration_Abs(total, duration) ==
    total + (IF duration < 0 THEN 0 - duration ELSE duration)
AddDuration(total, duration) == total + duration

\* Lines 535-543 with the else branch assigning where lines 542-543 add.
Aggregate_Overwrite ==
    /\ pc = "calculate_transition_data"
    /\ k <= Len(durations)
    /\ LET transition_key == << durations[k].from, durations[k].to >>
           duration == durations[k].duration
       IN /\ transition_durations' =
                 [x \in DOMAIN transition_durations \cup {transition_key} |->
                     IF x = transition_key THEN duration
                     ELSE transition_durations[x]]
          /\ transition_execution_times' =
                 [x \in DOMAIN transition_execution_times \cup {transition_key} |->
                     IF x = transition_key THEN 1
                     ELSE transition_execution_times[x]]
    /\ k' = k + 1
    /\ UNCHANGED << issue_data, pc, status_changes, last_timestamp, durations,
                    effortVars, batchVars, callVars, fetchVars >>

\* Lines 535-543: one record is added to its (from, to) key.
Aggregate ==
    /\ pc = "calculate_transition_data"
    /\ k <= Len(durations)
    /\ LET transition_key == << durations[k].from, durations[k].to >>
           duration == durations[k].duration
       IN IF transition_key \notin DOMAIN transition_durations
          THEN /\ transition_durations' =
                      [x \in DOMAIN transition_durations \cup {transition_key} |->
                          IF x = transition_key THEN duration
                          ELSE transition_durations[x]]
               /\ transition_execution_times' =
                      [x \in DOMAIN transition_execution_times \cup {transition_key} |->
                          IF x = transition_key THEN 1
                          ELSE transition_execution_times[x]]
          ELSE /\ transition_durations' =
                      [transition_durations EXCEPT ![transition_key] =
                          AddDuration(@, duration)]
               /\ transition_execution_times' =
                      [transition_execution_times EXCEPT ![transition_key] = @ + 1]
    /\ k' = k + 1
    /\ UNCHANGED << issue_data, pc, status_changes, last_timestamp, durations,
                    effortVars, batchVars, callVars, fetchVars >>

\* Line 545: both mappings are returned.
AggregateReturn ==
    /\ pc = "calculate_transition_data"
    /\ k > Len(durations)
    /\ pc' = "done"
    /\ UNCHANGED << issue_data, durVars, effortVars, batchVars, callVars, fetchVars >>

(***************************************************************************)
(* calculate_duration_components                                           *)
(***************************************************************************)
\* Lines 550-571 without the half-day case of lines 560-562.
calculate_duration_components_NoHalfDay(total_seconds) ==
    LET days == total_seconds \div (24 * 3600)
        remaining_seconds == total_seconds % (24 * 3600)
        rounded_days ==
            IF total_seconds > 0
            THEN IF days = 0 /\ remaining_seconds > 0 THEN 1 ELSE days
            ELSE 0
        whole_hours == total_seconds \div 3600
        total_hours ==
            IF total_seconds > 0
            THEN (IF whole_hours > 1 THEN whole_hours ELSE 1)
            ELSE 0
    IN << rounded_days, total_hours >>

\* Lines 550-571 without the max(1, ...) of line 570.
calculate_duration_components_NoMinimum(total_seconds) ==
    LET days == total_seconds \div (24 * 3600)
        remaining_seconds == total_seconds % (24 * 3600)
        remaining_hours == remaining_seconds \div 3600
        rounded_days ==
            IF total_seconds > 0
            THEN IF days = 0 /\ remaining_seconds > 0 THEN 1
                 ELSE IF days > 0 /\ remaining_hours >= 12 THEN days + 1
                 ELSE days
            ELSE 0
        total_hours == IF total_seconds > 0 THEN total_seconds \div 3600 ELSE 0
    IN << rounded_days, total_hours >>

\* Lines 550-571; // and % on a positive divisor floor, as \div and % do.
calculate_duration_components(total_seconds) ==
    LET days == total_seconds \div (24 * 3600)
        remaining_seconds == total_seconds % (24 * 3600)
        remaining_hours == remaining_seconds \div 3600
        rounded_days ==
            IF total_seconds > 0
            THEN IF days = 0 /\ remaining_seconds > 0 THEN 1
                 ELSE IF days > 0 /\ remaining_hours >= 12 THEN days + 1
                 ELSE days
            ELSE 0
        whole_hours == total_seconds \div 3600
        total_hours ==
            IF total_seconds > 0
            THEN (IF whole_hours > 1 THEN whole_hours ELSE 1)
            ELSE 0
    IN << rounded_days, total_hours >>

(***************************************************************************)
(* The duration pipeline on one issue document.                            *)
(***************************************************************************)
\* Creation timestamps: the usual tracker form, the documented scenario's
\* form (no fractional part) and a malformed string.
DurCreated == { Iso(0, TRUE, Ist), Iso(0, FALSE, Ist), Malformed }

\* History timestamps; Iso(0, TRUE, 0) is 05:30 h after the creation instant
\* and Iso(Day, TRUE, Ist) 24 h after it.
DurTimes == { Iso(Day, TRUE, Ist), Iso(0, TRUE, 0), Iso(Day, FALSE, Ist),
              Malformed, NullTime }

DurItems == { << StatusItem("Open", "In Progress") >>,
              << StatusItem("In Progress", "Open") >>,
              << OtherItem >>,
              << StatusItem("Open", "In Progress"), OtherItem,
                 StatusItem("In Progress", "Open") >> }

DurHistories == [created : DurTimes, items : DurItems]

DurIssues == [created : DurCreated, histories : SeqsUpTo(DurHistories, MaxHistories)]

Idle ==
    /\ status_changes = << >>
    /\ k = 1
    /\ last_timestamp = 0
    /\ durations = << >>
    /\ transition_durations = EmptyMap
    /\ transition_execution_times = EmptyMap
    /\ status_change_dates = << >>
    /\ initial_status = None
    /\ time_spent_per_status = EmptyMap
    /\ worklog = [created |-> Malformed, timeSpentSeconds |-> 0]
    /\ current_status = None
    /\ worklogs_seen = 0
    /\ seconds_seen = 0
    /\ pos = 1
    /\ outcomes = << >>

\* fetch_all_worklogs has not been called.
NoFetch ==
    /\ start_at = 0
    /\ all_worklogs = << >>
    /\ exchanges = << >>

\* None of the formatting functions has been called.
NoCall ==
    /\ fn = ""
    /\ arg = 0
    /\ result = 0

Init ==
    /\ issue_data \in DurIssues
    /\ pc = "calculate_durations"
    /\ batch = << >>
    /\ Idle
    /\ NoFetch
    /\ NoCall

Next ==
    \/ NoStatusChanges
    \/ CreatedRaises
    \/ EnterLoop
    \/ LoopEmit
    \/ LoopSkip
    \/ LoopRaises
    \/ LoopReturn
    \/ Aggregate
    \/ AggregateReturn

Spec == Init /\ [][Next]_vars

(***************************************************************************)
(* accumulate_effort_per_status                                            *)
(*                                                                         *)
(* Hours are kept as whole seconds (the value of a bucket is its number of *)
(* seconds divided by 3600), which leaves out the rounding of Python's     *)
(* float division.                                                         *)
(***************************************************************************)
\* Truth value of a status in `if initial_status` and `if current_status`.
Truthy(status) == status # None /\ status # ""

\* The order of Python's >= on two timestamp strings: the fixed-width
\* wall-clock prefix first, then '.' (a fractional part) after '+' and '-',
\* then the offset text, '+' before '-' and digit by digit.
OffsetKey(off) == IF off >= 0 THEN << 0, off >> ELSE << 1, 0 - off >>

TextKey(ts) ==
    << ts.local, IF ts.frac THEN 1 ELSE 0, OffsetKey(ts.off)[1], OffsetKey(ts.off)[2] >>

RECURSIVE LexGeq(_, _)
LexGeq(a, b) ==
    IF a = << >> THEN TRUE
    ELSE IF Head(a) # Head(b) THEN Head(a) > Head(b)
    ELSE LexGeq(Tail(a), Tail(b))

\* Line 297: worklog_date >= change_date, on the strings.
DateGeq(worklog_date, change_date) ==
    LexGeq(TextKey(worklog_date), TextKey(change_date))

\* Lines 277-280: (toString, created) of every status item, in changelog order.
ChangeDatesOf(changelog) ==
    LET changes == StatusChangesOf([histories |-> changelog])
    IN [i \in 1..Len(changes) |->
           [status |-> changes[i].toString, date |-> changes[i].created]]

\* Lines 276-282: the fromString of the first status item whose fromString is
\* not None (the test of line 281 passes again after a None).
RECURSIVE FirstNotNone(_)
FirstNotNone(froms) ==
    IF froms = << >> THEN None
    ELSE IF Head(froms) # None THEN Head(froms)
    ELSE FirstNotNone(Tail(froms))

InitialStatusOf(changelog) ==
    LET changes == StatusChangesOf([histories |-> changelog])
    IN FirstNotNone([i \in 1..Len(changes) |-> changes[i].fromString])

\* Lines 275-285: the timeline, with the initial status put in front, dated
\* by the first history entry of the changelog.
TimelineOf(changelog) ==
    IF Truthy(InitialStatusOf(changelog)) /\ changelog # << >>
    THEN << [status |-> InitialStatusOf(changelog), date |-> changelog[1].created] >>
         \o ChangeDatesOf(changelog)
    ELSE ChangeDatesOf(changelog)

\* Lines 288-289: every status of the timeline starts at 0.
ZeroBuckets(timeline) ==
    [status \in { timeline[i].status : i \in 1..Len(timeline) } |-> 0]

\* Lines 295-299: the scan from the most recent entry to the earliest, which
\* stops at the first entry the worklog is not older than.
RECURSIVE ScanFrom(_, _, _, _)
ScanFrom(timeline, i, worklog_date, fallback) ==
    IF i = 0 THEN fallback
    ELSE IF DateGeq(worklog_date, timeline[i].date) THEN timeline[i].status
    ELSE ScanFrom(timeline, i - 1, worklog_date, fallback)

StatusAt(timeline, worklog_date, fallback) ==
    ScanFrom(timeline, Len(timeline), worklog_date, fallback)

\* Lines 300-301: the bucket update, skipped for a status that is not truthy.
Credit(buckets, status, seconds) ==
    IF Truthy(status)
    THEN [buckets EXCEPT ![status] = @ + seconds]
    ELSE buckets

\* Lines 272-289: the timeline and the zeroed buckets.
BuildTimeline ==
    /\ pc = "accumulate_effort_per_status"
    /\ status_change_dates' = TimelineOf(issue_data.histories)
    /\ initial_status' = InitialStatusOf(issue_data.histories)
    /\ time_spent_per_status' = ZeroBuckets(TimelineOf(issue_data.histories))
    /\ pc' = "worklogs"
    /\ UNCHANGED << issue_data, durVars, worklog, current_status, worklogs_seen,
                    seconds_seen, batchVars, callVars, fetchVars >>

\* Worklog entries as fetch_all_worklogs returns them (line 287).
EffortWorklogTimes == { Iso(0 - Hour, TRUE, 0), Iso(Hour, TRUE, 0), Iso(3 * Hour, TRUE, Ist) }

EffortWorklogs == [created : EffortWorklogTimes, timeSpentSeconds : {Hour \div 2, Hour}]

\* Lines 291-301: one worklog entry is attributed.
AttributeWorklog ==
    /\ pc = "worklogs"
    /\ worklogs_seen < MaxWorklogs
    /\ \E entry \in EffortWorklogs :
          LET status == StatusAt(status_change_dates, entry.created, initial_status)
          IN /\ worklog' = entry
             /\ current_status' = status
             /\ time_spent_per_status' =
                    Credit(time_spent_per_status, status, entry.timeSpentSeconds)
             /\ seconds_seen' = seconds_seen + entry.timeSpentSeconds
    /\ worklogs_seen' = worklogs_seen + 1
    /\ UNCHANGED << issue_data, pc, durVars, status_change_dates, initial_status,
                    batchVars, callVars, fetchVars >>

\* Line 302: the worklog list is exhausted, the mapping is returned.
EffortReturn ==
    /\ pc = "worklogs"
    /\ pc' = "effort_done"
    /\ UNCHANGED << issue_data, durVars, effortVars, batchVars, callVars, fetchVars >>

\* History timestamps: 2024-01-01T00:00:00.000+0000 and
\* 2024-01-01T03:00:00.000+0530, which is the later text and the earlier instant.
EffortTimes == { Iso(0, TRUE, 0), Iso(3 * Hour, TRUE, Ist) }

EffortItems == { << StatusItem("Open", "Done") >>,
                 << StatusItem("Done", "Open") >>,
                 << StatusItem(None, "Done") >>,
                 << StatusItem("Open", None) >>,
                 << OtherItem >> }

EffortHistories == [created : EffortTimes, items : EffortItems]

EffortIssues == [created : {Iso(0, TRUE, 0)},
                 histories : SeqsUpTo(EffortHistories, MaxHistories)]

EffortInit ==
    /\ issue_data \in EffortIssues
    /\ pc = "accumulate_effort_per_status"
    /\ batch = << >>
    /\ Idle
    /\ NoFetch
    /\ NoCall

EffortNext ==
    \/ BuildTimeline
    \/ AttributeWorklog
    \/ EffortReturn

SpecEffort == EffortInit /\ [][EffortNext]_vars

\* Both entry points of one issue's computation: calculate_durations followed
\* by calculate_transition_data on any document of DurIssues, and
\* accumulate_effort_per_status on the documents of EffortIssues and on the
\* documents of DurIssues that hold no status item.
NoStatusIssues == { issue \in DurIssues : StatusChangesOf(issue) = << >> }

CoreInit ==
    /\ \/ /\ issue_data \in DurIssues
          /\ pc = "calculate_durations"
       \/ /\ issue_data \in EffortIssues \cup NoStatusIssues
          /\ pc = "accumulate_effort_per_status"
    /\ batch = << >>
    /\ Idle
    /\ NoFetch
    /\ NoCall

CoreNext ==
    \/ Next
    \/ EffortNext

SpecCore == CoreInit /\ [][CoreNext]_vars

\* calculate_transition_data on any list of transition records (line 462
\* hands it whatever calculate_durations returned).  "Open", "open" and
\* "Open " are three different statuses to the tuple key of line 536.
MaxRecords == 3

TransitionRecords == [from : {"Open", "open", "Open "},
                      to : {"Reopened"},
                      duration : {Hour, 2 * Hour, 0 - Hour}]

AggregateInit ==
    /\ issue_data = [created |-> Malformed, histories |-> << >>]
    /\ pc = "calculate_transition_data"
    /\ batch = << >>
    /\ status_changes = << >>
    /\ k = 1
    /\ last_timestamp = 0
    /\ durations \in SeqsUpTo(TransitionRecords, MaxRecords)
    /\ transition_durations = EmptyMap
    /\ transition_execution_times = EmptyMap
    /\ status_change_dates = << >>
    /\ initial_status = None
    /\ time_spent_per_status = EmptyMap
    /\ worklog = [created |-> Malformed, timeSpentSeconds |-> 0]
    /\ current_status = None
    /\ worklogs_seen = 0
    /\ seconds_seen = 0
    /\ pos = 1
    /\ outcomes = << >>
    /\ fn = ""
    /\ arg = 0
    /\ result = 0
    /\ NoFetch

AggregateNext ==
    \/ Aggregate
    \/ AggregateReturn

SpecAggregate == AggregateInit /\ [][AggregateNext]_vars

(***************************************************************************)
(* The formatting and rounding functions, each called on one duration.     *)
(***************************************************************************)
\* Durations in whole seconds: a number of days built from years of 365
\* days, months of 30 days, weeks and days, then hours, minutes and seconds,
\* with either sign (calculate_durations keeps negative differences).
MaxYears == 1
MaxDays == 2

CallDays == { y * 365 + mo * 30 + w * 7 + d :
                  y \in 0..MaxYears, mo \in {0, 1, 11}, w \in {0, 1}, d \in 0..MaxDays }

CallHours == {0, 1, 3, 9, 11, 12, 15, 23}

CallMinutes == {0, 1, 59}

CallSeconds == {0, 1, 59}

CallDurations ==
    { sign * (d * Day + h * Hour + m * 60 + s) :
          sign \in {0 - 1, 1}, d \in CallDays, h \in CallHours,
          m \in CallMinutes, s \in CallSeconds }

CallInit ==
    /\ issue_data = [created |-> Malformed, histories |-> << >>]
    /\ pc = "call"
    /\ batch = << >>
    /\ Idle
    /\ NoFetch
    /\ fn = ""
    /\ arg \in CallDurations
    /\ result = 0

\* Lines 473 and 517: the rounded days and total hours of a duration.
CallCalculateDurationComponents ==
    /\ pc = "call"
    /\ fn' = "calculate_duration_components"
    /\ result' = calculate_duration_components(arg)
    /\ pc' = "returned"
    /\ UNCHANGED << issue_data, durVars, effortVars, batchVars, arg, fetchVars >>

(***************************************************************************)
(* Python floats.  A non-negative float is kept exactly, as its integer     *)
(* part and the digits of its fractional part in base 256:                  *)
(* [int |-> 1, frac |-> <<64>>] is 1.25.  A float has 53 significant bits;  *)
(* an operation computes the exact result and rounds it to the nearest      *)
(* float, ties to the even one.                                             *)
(***************************************************************************)
SignificantBits == 53

DigitBits == 8

Pow2(n) == << 1, 2, 4, 8, 16, 32, 64, 128, 256 >>[n + 1]

Base == Pow2(DigitBits)

\* Digits of a quotient that are computed before rounding: they hold the 53
\* significant bits, the leading zeros of a small quotient and the bit
\* that decides.
QuotientDigits == (SignificantBits + 19) \div DigitBits + 1

RECURSIVE BitLength(_)
BitLength(n) == IF n = 0 THEN 0 ELSE 1 + BitLength(n \div 2)

\* The zero bits before the first one bit of 0.digits.
RECURSIVE LeadingZeros(_)
LeadingZeros(digits) ==
    IF digits = << >> THEN 0
    ELSE IF Head(digits) # 0 THEN DigitBits - BitLength(Head(digits))
    ELSE DigitBits + LeadingZeros(Tail(digits))

AnyOne(digits, first) == \E i \in first..Len(digits) : digits[i] # 0

RECURSIVE StripZeros(_)
StripZeros(digits) ==
    IF digits = << >> \/ digits[Len(digits)] # 0 THEN digits
    ELSE StripZeros(SubSeq(digits, 1, Len(digits) - 1))

\* A fixed-point number with one more digit at the end of its fraction.
WithDigit(x, digit) == [int |-> x.int, frac |-> Append(x.frac, digit)]

\* 0.digits plus carry units of the last digit's place: int is what is
\* carried out of the first place.
RECURSIVE AddCarry(_, _)
AddCarry(digits, carry) ==
    IF digits = << >> THEN [int |-> carry, frac |-> << >>]
    ELSE WithDigit(AddCarry(SubSeq(digits, 1, Len(digits) - 1),
                            (digits[Len(digits)] + carry) \div Base),
                   (digits[Len(digits)] + carry) % Base)

\* int + x for a fixed-point number x, in its shortest form.
Shortest(int, x) == [int |-> int + x.int, frac |-> StripZeros(x.frac)]

\* The digit at a place, 0 beyond the last one.
DigitAt(digits, i) == IF i <= Len(digits) THEN digits[i] ELSE 0

\* The float nearest to int + 0.digits (+ something below the last digit
\* when sticky), ties to even.  The first `kept` bits of the fraction fit the
\* float: `whole` digits and the upper `part` bits of the next one.
RoundToFloat(int, digits, sticky) ==
    LET kept == IF int > 0 THEN SignificantBits - BitLength(int)
                ELSE LeadingZeros(digits) + SignificantBits
        whole == kept \div DigitBits
        part == kept % DigitBits
        unit == Pow2(DigitBits - part)
        last == DigitAt(digits, whole + 1)
        low == last % unit
        guard == low \div (unit \div 2)
        below == sticky \/ low % (unit \div 2) # 0 \/ AnyOne(digits, whole + 2)
        odd == IF part > 0 THEN (last \div unit) % 2 = 1
               ELSE IF whole > 0 THEN digits[whole] % 2 = 1
               ELSE int % 2 = 1
        prefix == IF part > 0
                  THEN SubSeq(digits, 1, whole) \o << last - low >>
                  ELSE SubSeq(digits, 1, whole)
    IN IF Len(digits) * DigitBits <= kept
       THEN [int |-> int, frac |-> StripZeros(digits)]
       ELSE IF guard = 1 /\ (below \/ odd)
       THEN Shortest(int, AddCarry(prefix, IF part > 0 THEN unit ELSE 1))
       ELSE [int |-> int, frac |-> StripZeros(prefix)]

\* The first n digits of r / d for 0 <= r < d, and what is left to divide.
RECURSIVE QuotientOf(_, _, _)
QuotientOf(r, d, n) ==
    IF n = 0 THEN << >>
    ELSE << (r * Base) \div d >> \o QuotientOf((r * Base) % d, d, n - 1)

RECURSIVE QuotientRest(_, _, _)
QuotientRest(r, d, n) ==
    IF n = 0 THEN r ELSE QuotientRest((r * Base) % d, d, n - 1)

\* n / d for integers n >= 0 and d > 0 (true division is correctly rounded).
TrueDivide(n, d) ==
    RoundToFloat(n \div d, QuotientOf(n % d, d, QuotientDigits),
                 QuotientRest(n % d, d, QuotientDigits) # 0)

\* int(x) for a float x >= 0.
Truncate(x) == x.int

\* x - n for an integer 0 <= n <= int(x): the difference is a float, so the
\* subtraction is exact.
MinusInt(x, n) == [int |-> x.int - n, frac |-> x.frac]

\* c * 0.digits + carry units of the last digit's place, for an integer c,
\* exactly.
RECURSIVE TimesDigits(_, _, _)
TimesDigits(digits, c, carry) ==
    IF digits = << >> THEN [int |-> carry, frac |-> << >>]
    ELSE WithDigit(TimesDigits(SubSeq(digits, 1, Len(digits) - 1), c,
                               (c * digits[Len(digits)] + carry) \div Base),
                   (c * digits[Len(digits)] + carry) % Base)

\* x * c for a float x >= 0 and an integer c >= 0.
TimesInt(x, c) ==
    RoundToFloat(x.int * c + TimesDigits(x.frac, c, 0).int,
                 TimesDigits(x.frac, c, 0).frac, FALSE)

\* The first n digits of (r + 0.digits) / c for 0 <= r < c, from digit i on,
\* and what is left to divide.
RECURSIVE DividedDigits(_, _, _, _, _)
DividedDigits(digits, c, r, i, n) ==
    IF n = 0 THEN << >>
    ELSE << (r * Base + DigitAt(digits, i)) \div c >>
         \o DividedDigits(digits, c, (r * Base + DigitAt(digits, i)) % c, i + 1, n - 1)

RECURSIVE DividedRest(_, _, _, _, _)
DividedRest(digits, c, r, i, n) ==
    IF n = 0 THEN r
    ELSE DividedRest(digits, c, (r * Base + DigitAt(digits, i)) % c, i + 1, n - 1)

\* x / c for a float x >= 0 and an integer c > 0.
DivideByInt(x, c) ==
    RoundToFloat(x.int \div c,
                 DividedDigits(x.frac, c, x.int % c, 1, QuotientDigits),
                 DividedRest(x.frac, c, x.int % c, 1, QuotientDigits) # 0)

\* x >= 1/2 for a fraction 0.digits.
AtLeastHalf(digits) == DigitAt(digits, 1) >= Base \div 2

ExactlyHalf(digits) == digits = << Base \div 2 >>

\* round(x) with every tie rounded up.
PyRound_HalfUp(x) ==
    IF AtLeastHalf(x.frac) THEN x.int + 1 ELSE x.int

\* round(x) for a float x >= 0: the nearest integer, a tie to the even one.
PyRound(x) ==
    IF ExactlyHalf(x.frac) THEN (IF x.int % 2 = 0 THEN x.int ELSE x.int + 1)
    ELSE IF AtLeastHalf(x.frac) THEN x.int + 1
    ELSE x.int

\* Lines 626-628.
calculate_days_from_hours(hours) == PyRound(DivideByInt(hours, 6))

\* math.floor(x) and math.ceil(x) for a float x >= 0.
MathFloor(x) == x.int

MathCeil(x) == IF x.frac = << >> THEN x.int ELSE x.int + 1

\* A rendered component, f"{count} {unit}{'s' if count > 1 else ''}", and the
\* text '0 seconds'; a rendering is the sequence of the components that
\* ', '.join puts together.
Part(count, unit) ==
    [count |-> count, unit |-> unit, suffix |-> IF count > 1 THEN "s" ELSE ""]

ZeroSeconds == << [count |-> 0, unit |-> "second", suffix |-> "s"] >>

\* Lines 204-225.
format_duration_days(duration) ==
    LET seconds_per_minute == 60
        seconds_per_hour == seconds_per_minute * 60
        seconds_per_day == seconds_per_hour * 24
        days == duration \div seconds_per_day
        after_days == duration % seconds_per_day
        hours == after_days \div seconds_per_hour
        after_hours == after_days % seconds_per_hour
        minutes == after_hours \div seconds_per_minute
        seconds == after_hours % seconds_per_minute
        parts == (IF days > 0 THEN << Part(days, "day") >> ELSE << >>)
                 \o (IF hours > 0 THEN << Part(hours, "hour") >> ELSE << >>)
                 \o (IF minutes > 0 THEN << Part(minutes, "minute") >> ELSE << >>)
                 \o (IF seconds > 0 THEN << Part(seconds, "second") >> ELSE << >>)
    IN IF parts # << >> THEN parts ELSE ZeroSeconds

\* Lines 233-241.
time_units ==
    << [unit |-> "year", seconds |-> 365 * 24 * 60 * 60],
       [unit |-> "month", seconds |-> 30 * 24 * 60 * 60],
       [unit |-> "week", seconds |-> 7 * 24 * 60 * 60],
       [unit |-> "day", seconds |-> 24 * 60 * 60],
       [unit |-> "hour", seconds |-> 60 * 60],
       [unit |-> "minute", seconds |-> 60],
       [unit |-> "second", seconds |-> 1] >>

\* Lines 243-247 with > in the place of >= in the test of line 244.
RECURSIVE FormatUnits_Strict(_, _)
FormatUnits_Strict(total_seconds, i) ==
    IF i > Len(time_units) THEN << >>
    ELSE IF total_seconds > time_units[i].seconds
    THEN << Part(total_seconds \div time_units[i].seconds, time_units[i].unit) >>
         \o FormatUnits_Strict(total_seconds % time_units[i].seconds, i + 1)
    ELSE FormatUnits_Strict(total_seconds, i + 1)

\* Lines 243-247: the loop over the units, from unit i on.
RECURSIVE FormatUnits(_, _)
FormatUnits(total_seconds, i) ==
    IF i > Len(time_units) THEN << >>
    ELSE IF total_seconds >= time_units[i].seconds
    THEN << Part(total_seconds \div time_units[i].seconds, time_units[i].unit) >>
         \o FormatUnits(total_seconds % time_units[i].seconds, i + 1)
    ELSE FormatUnits(total_seconds, i + 1)

\* Lines 230-248.
format_duration(duration) ==
    LET parts == FormatUnits(duration, 1)
    IN IF parts # << >> THEN parts ELSE ZeroSeconds

\* Line 507: a key's total duration is rendered in days, hours, minutes and
\* seconds.
CallFormatDurationDays ==
    /\ pc = "call"
    /\ fn' = "format_duration_days"
    /\ result' = format_duration_days(arg)
    /\ pc' = "returned"
    /\ UNCHANGED << issue_data, durVars, effortVars, batchVars, arg, fetchVars >>

\* Line 525: a record's duration is rendered in all seven units.
CallFormatDuration ==
    /\ pc = "call"
    /\ fn' = "format_duration"
    /\ result' = format_duration(arg)
    /\ pc' = "returned"
    /\ UNCHANGED << issue_data, durVars, effortVars, batchVars, arg, fetchVars >>

\* Lines 576-583; the rendering is the sequence of the parts that ' '.join
\* puts together, f"{hours}h" and f"{minutes}m".
format_hours_minutes(total_hours) ==
    LET hours == Truncate(total_hours)
        minutes == Truncate(TimesInt(MinusInt(total_hours, hours), 60))
        parts == (IF hours > 0 THEN << [count |-> hours, unit |-> "h"] >> ELSE << >>)
                 \o (IF minutes > 0 THEN << [count |-> minutes, unit |-> "m"] >>
                     ELSE << >>)
    IN IF parts # << >> THEN parts ELSE << [count |-> 0, unit |-> "m"] >>

\* Lines 593-601: the cells of the efforts row that are computed from the
\* logged effort.
append_effort_data(logged_effort) ==
    [logged_effort_formatted |-> format_hours_minutes(logged_effort),
     logged_effort_rounded |->
         IF AtLeastHalf(MinusInt(logged_effort, MathFloor(logged_effort)).frac)
         THEN MathCeil(logged_effort)
         ELSE MathFloor(logged_effort),
     logged_effort_days_rounded |-> PyRound(DivideByInt(logged_effort, 6))]

\* x >= n for a float x >= 0 and an integer n.
AtLeastInt(x, n) == x.int >= n

\* Lines 340-359: days of 6 hours, hours, minutes and seconds of
\* int(hours * 3600), each with a plural word whatever its count.
format_detailed_duration(hours) ==
    LET total_seconds == Truncate(TimesInt(hours, 3600))
        days == total_seconds \div (6 * 3600)
        after_days == total_seconds % (6 * 3600)
        whole_hours == after_days \div 3600
        after_hours == after_days % 3600
        minutes == after_hours \div 60
        seconds == after_hours % 60
        Plural(count, unit) == [count |-> count, unit |-> unit, suffix |-> "s"]
        parts == (IF days > 0 THEN << Plural(days, "day") >> ELSE << >>)
                 \o (IF whole_hours > 0 THEN << Plural(whole_hours, "hour") >> ELSE << >>)
                 \o (IF minutes > 0 THEN << Plural(minutes, "minute") >> ELSE << >>)
                 \o (IF seconds > 0 THEN << Plural(seconds, "second") >> ELSE << >>)
    IN IF parts # << >> THEN parts ELSE ZeroSeconds

\* Lines 634-646: the cells of a status' row that are computed from its
\* hours.
append_time_spent_data(hours) ==
    [formatted |-> format_hours_minutes(hours),
     rounded_hours |-> IF AtLeastInt(TimesInt(hours, 60), 30)
                       THEN MathCeil(hours) ELSE MathFloor(hours),
     detailed_time_spent |-> format_detailed_duration(hours),
     detailed_time_spent_days |-> calculate_days_from_hours(hours)]

\* Lines 593 and 643: hours of effort, which are a number of seconds divided
\* by 3600 (lines 410-412 and 292), are rendered as hours and minutes.
CallFormatHoursMinutes ==
    /\ pc = "call"
    /\ arg >= 0
    /\ fn' = "format_hours_minutes"
    /\ result' = format_hours_minutes(TrueDivide(arg, 3600))
    /\ pc' = "returned"
    /\ UNCHANGED << issue_data, durVars, effortVars, batchVars, arg, fetchVars >>

\* Line 637: the days of a status' hours.
CallCalculateDaysFromHours ==
    /\ pc = "call"
    /\ arg >= 0
    /\ fn' = "calculate_days_from_hours"
    /\ result' = calculate_days_from_hours(TrueDivide(arg, 3600))
    /\ pc' = "returned"
    /\ UNCHANGED << issue_data, durVars, effortVars, batchVars, arg, fetchVars >>

\* Lines 586-623 on an issue's logged effort (line 92).
CallAppendEffortData ==
    /\ pc = "call"
    /\ arg >= 0
    /\ fn' = "append_effort_data"
    /\ result' = append_effort_data(TrueDivide(arg, 3600))
    /\ pc' = "returned"
    /\ UNCHANGED << issue_data, durVars, effortVars, batchVars, arg, fetchVars >>

\* Lines 631-647 on one status' hours, which line 292 computes from a
\* worklog's seconds.
CallAppendTimeSpentData ==
    /\ pc = "call"
    /\ arg >= 0
    /\ fn' = "append_time_spent_data"
    /\ result' = append_time_spent_data(TrueDivide(arg, 3600))
    /\ pc' = "returned"
    /\ UNCHANGED << issue_data, durVars, effortVars, batchVars, arg, fetchVars >>

CallNext ==
    \/ CallCalculateDurationComponents
    \/ CallCalculateDaysFromHours
    \/ CallAppendEffortData
    \/ CallAppendTimeSpentData
    \/ CallFormatHoursMinutes
    \/ CallFormatDurationDays
    \/ CallFormatDuration

SpecCall == CallInit /\ [][CallNext]_vars

(***************************************************************************)
(* Sprint names: fetch_issue_type_and_sprint (lines 147-167) and            *)
(* extract_sprint_names of jira_issues_status_fetcher.py (lines 121-135)   *)
(* on the value of the field customfield_10583.                            *)
(***************************************************************************)
MaxSprints == 3

\* The texts a sprint is given as: the tracker's rendering of a sprint
\* object, the same without a name, and a bare name.
SprintWithName == "com.atlassian.greenhopper.service.sprint.Sprint@1[id=1,name=Sprint 1,state=CLOSED]"

SprintWithoutName == "com.atlassian.greenhopper.service.sprint.Sprint@2[id=2,state=ACTIVE]"

BareName == "Sprint 1"

\* 'name=' in text.
HasMarker(text) == text = SprintWithName

\* text.split('name=')[1].split(',')[0] and the group 1 of
\* re.search(r'name=([A-Za-z0-9\s\-]+)', text), for a text with 'name='.
NameOf(text) == IF text = SprintWithName THEN "Sprint 1" ELSE ""

\* A JSON value: its type, and its items, its 'name' entry or its text.
\* A dict's name is "<absent>" when it has no 'name' key and None when the
\* entry is null.
Absent == "<absent>"

JsonValue(type, items, name, text) ==
    [type |-> type, items |-> items, name |-> name, text |-> text]

JsonNull == JsonValue("NoneType", << >>, Absent, "")

JsonStr(text) == JsonValue("str", << >>, Absent, text)

JsonDict(name) == JsonValue("dict", << >>, name, "")

JsonInt == JsonValue("int", << >>, Absent, "")

JsonList(items) == JsonValue("list", items, Absent, "")

SprintElements == { JsonStr(SprintWithName), JsonStr(SprintWithoutName), JsonDict("Sprint 1") }

SprintFields ==
    { JsonNull, JsonInt, JsonStr(BareName), JsonStr(SprintWithName),
      JsonDict("Sprint 1"), JsonDict(Absent), JsonDict(None) }
    \cup { JsonList(items) : items \in SeqsUpTo(SprintElements, MaxSprints) }

\* bool(value): None and the empty list are not truthy; a non-empty text, a
\* dict with an entry and the integer of JsonInt are.
TruthyValue(value) ==
    /\ value.type # "NoneType"
    /\ value.type = "list" => value.items # << >>

Returns(value) == [raised |-> "", value |-> value]

Raises(error) == [raised |-> error, value |-> << >>]

\* ', '.join(sprint_names) if sprint_names else 'No Sprint' (lines 166 and
\* 135): the joined names are kept as their sequence; join raises TypeError
\* on an item that is None.
JoinNames(sprint_names) ==
    IF sprint_names = << >> THEN Returns(<< "No Sprint" >>)
    ELSE IF \E i \in 1..Len(sprint_names) : sprint_names[i] = None
    THEN Raises("TypeError")
    ELSE Returns(sprint_names)

\* Lines 153-157: the loop over a list, from item i on; a string without
\* 'name=' makes split('name=')[1] raise IndexError.
RECURSIVE FetchListNames(_, _, _)
FetchListNames(sprint_field, i, sprint_names) ==
    IF i > Len(sprint_field) THEN JoinNames(sprint_names)
    ELSE IF sprint_field[i].type # "str"
    THEN FetchListNames(sprint_field, i + 1, sprint_names)
    ELSE IF HasMarker(sprint_field[i].text)
    THEN FetchListNames(sprint_field, i + 1,
                        Append(sprint_names, NameOf(sprint_field[i].text)))
    ELSE Raises("IndexError")

\* Lines 147-167 of fetch_issue_type_and_sprint: the sprint names.
fetch_issue_type_and_sprint(sprint_field) ==
    IF ~ TruthyValue(sprint_field) THEN JoinNames(<< >>)
    ELSE IF sprint_field.type = "list" THEN FetchListNames(sprint_field.items, 1, << >>)
    ELSE IF sprint_field.type = "dict"
    THEN JoinNames(<< IF sprint_field.name = Absent THEN "N/A" ELSE sprint_field.name >>)
    ELSE IF sprint_field.type = "str" THEN JoinNames(<< sprint_field.text >>)
    ELSE JoinNames(<< >>)

\* Lines 125-133 of extract_sprint_names: the loop over a list, from item i
\* on; re.search raises TypeError on an item that is not a string.
RECURSIVE ExtractListNames(_, _, _)
ExtractListNames(sprint_field, i, sprint_names) ==
    IF i > Len(sprint_field) THEN JoinNames(sprint_names)
    ELSE IF sprint_field[i].type # "str" THEN Raises("TypeError")
    ELSE IF HasMarker(sprint_field[i].text)
    THEN ExtractListNames(sprint_field, i + 1,
                          Append(sprint_names, NameOf(sprint_field[i].text)))
    ELSE ExtractListNames(sprint_field, i + 1, sprint_names)

\* Lines 121-135 of extract_sprint_names.  The loop over a text visits its
\* characters and the loop over a dict its keys, none of which holds
\* 'name='; a value that cannot be iterated raises TypeError.
extract_sprint_names(sprint_field) ==
    IF ~ TruthyValue(sprint_field) THEN JoinNames(<< >>)
    ELSE IF sprint_field.type = "list" THEN ExtractListNames(sprint_field.items, 1, << >>)
    ELSE IF sprint_field.type \in {"dict", "str"} THEN JoinNames(<< >>)
    ELSE Raises("TypeError")

SprintInit ==
    /\ issue_data = [created |-> Malformed, histories |-> << >>]
    /\ pc = "call"
    /\ batch = << >>
    /\ Idle
    /\ NoFetch
    /\ fn = ""
    /\ arg \in SprintFields
    /\ result = Returns(<< >>)

CallFetchIssueTypeAndSprint ==
    /\ pc = "call"
    /\ fn' = "fetch_issue_type_and_sprint"
    /\ result' = fetch_issue_type_and_sprint(arg)
    /\ pc' = "returned"
    /\ UNCHANGED << issue_data, durVars, effortVars, batchVars, arg, fetchVars >>

CallExtractSprintNames ==
    /\ pc = "call"
    /\ fn' = "extract_sprint_names"
    /\ result' = extract_sprint_names(arg)
    /\ pc' = "returned"
    /\ UNCHANGED << issue_data, durVars, effortVars, batchVars, arg, fetchVars >>

SprintNext ==
    \/ CallFetchIssueTypeAndSprint
    \/ CallExtractSprintNames

SpecSprint == SprintInit /\ [][SprintNext]_vars

(***************************************************************************)
(* fetch_all_worklogs                                                      *)
(*                                                                         *)
(* The loop of lines 256-267 against a worklog endpoint.  A response is    *)
(* the JSON object the endpoint sends: its 'worklogs' list and its 'total',*)
(* which may be a number, missing, or null.  The endpoint is free to       *)
(* report a different total on every page, one that keeps growing          *)
(* included.  exchanges records each request's startAt with the response   *)
(* it received.                                                            *)
(***************************************************************************)
\* The number of requests one call is followed for.
MaxRequests == 3

\* Line 255.
max_results == 1000

\* The 'worklogs' lists a response may carry; a response without the key
\* reads as the empty list (line 264).
ResponseWorklogs == { << >>, << "w1" >>, << "w2", "w3" >> }

ResponseInt(n) == [kind |-> "int", value |-> n]

\* The totals an endpoint may report of itself: around each page boundary.
SteadyTotals ==
    {0, 1} \cup { max_results * j + d : j \in 1 .. (MaxRequests - 1), d \in {0, 1} }
           \cup { max_results * MaxRequests }

\* The 'total' of a response to the request at startAt: missing, null, one
\* of the steady totals, or one that is again beyond the page just served.
ResponseTotals(startAt) ==
    { [kind |-> "absent", value |-> 0], [kind |-> "null", value |-> 0] }
        \cup { ResponseInt(n) : n \in SteadyTotals \cup { startAt + max_results + 1 } }

Responses(startAt) ==
    [worklogs : ResponseWorklogs, total : ResponseTotals(startAt)]

\* Line 265: data.get('total', 0).
TotalOf(data) == IF data.total.kind = "absent" THEN 0 ELSE data.total.value

\* The variant of line 265 that asks for one page more at an exact boundary.
LastPage_Strict(startAt, data) == startAt + max_results > TotalOf(data)

\* Line 265: the page just read is the last one.
LastPage(startAt, data) == startAt + max_results >= TotalOf(data)

WorklogsInit ==
    /\ issue_data = [created |-> Malformed, histories |-> << >>]
    /\ pc = "fetch_all_worklogs"
    /\ batch = << >>
    /\ Idle
    /\ NoFetch
    /\ NoCall

\* Lines 257-267: one turn of the loop with a response whose total compares.
FetchPage ==
    /\ pc = "fetch_all_worklogs"
    /\ Len(exchanges) < MaxRequests
    /\ \E data \in Responses(start_at) :
          /\ data.total.kind # "null"
          /\ exchanges' = Append(exchanges, [startAt |-> start_at, data |-> data])
          /\ all_worklogs' = all_worklogs \o data.worklogs
          /\ IF LastPage(start_at, data)
             THEN /\ pc' = "fetched"
                  /\ start_at' = start_at
             ELSE /\ pc' = pc
                  /\ start_at' = start_at + max_results
    /\ UNCHANGED << issue_data, durVars, effortVars, batchVars, callVars >>

\* Lines 257-265: a null 'total' makes the comparison of line 265 raise
\* TypeError, after the page was appended.
FetchPageRaises ==
    /\ pc = "fetch_all_worklogs"
    /\ Len(exchanges) < MaxRequests
    /\ \E data \in Responses(start_at) :
          /\ data.total.kind = "null"
          /\ exchanges' = Append(exchanges, [startAt |-> start_at, data |-> data])
          /\ all_worklogs' = all_worklogs \o data.worklogs
    /\ pc' = "raised"
    /\ UNCHANGED << issue_data, durVars, effortVars, batchVars, callVars, start_at >>

WorklogsNext ==
    \/ FetchPage
    \/ FetchPageRaises

SpecWorklogs == WorklogsInit /\ [][WorklogsNext]_vars

\* The loop is sequential code: while it can take a turn, it takes it.
FairSpecWorklogs == SpecWorklogs /\ WF_vars(WorklogsNext)

(***************************************************************************)
(* process_issues and process_issue                                        *)
(***************************************************************************)
\* Lines 324-337: the 'created' of the last history that holds a status item.
LastTransitionDate(issue) ==
    LET changes == StatusChangesOf(issue)
    IN IF changes = << >> THEN NullTime ELSE changes[Len(changes)].created

\* Lines 152-157: a sprint field that is a list of strings is split at
\* 'name='; [1] raises IndexError when an element has no such marker.
SprintRaises(sprint_field) == sprint_field = "list without name="

\* Whether calculate_durations(issue) raises: line 187 on the creation
\* timestamp, or line 190 with a TypeError that line 197 does not catch.
CalculateDurationsRaises(issue) ==
    LET changes == StatusChangesOf(issue)
    IN /\ changes # << >>
       /\ \/ strptime_result(issue.created) # "ok"
          \/ \E i \in 1..Len(changes) : strptime_result(changes[i].created) = "TypeError"

\* Lines 416-452: what one call of process_issue does with the response.
ProcessIssueOutcome(response) ==
    IF ~response.fetched THEN "skipped"                                 \* line 419
    ELSE IF ~isoparse_ok(response.issue.created) THEN "raised"          \* line 425
    ELSE IF /\ LastTransitionDate(response.issue).kind # "null"
            /\ ~isoparse_ok(LastTransitionDate(response.issue)) THEN "raised"  \* line 427
    ELSE IF SprintRaises(response.sprint) THEN "raised"                 \* line 432
    ELSE IF CalculateDurationsRaises(response.issue) THEN "raised"      \* line 442
    ELSE "processed"

\* Lines 685-686 with process_issue returning normally (data appended).
ProcessIssueDone ==
    /\ pc = "process_issues"
    /\ pos <= Len(batch)
    /\ ProcessIssueOutcome(batch[pos]) = "processed"
    /\ outcomes' = Append(outcomes, "processed")
    /\ pos' = pos + 1
    /\ UNCHANGED << issue_data, pc, batch, durVars, effortVars, callVars, fetchVars >>

\* Lines 419-421: no data for the issue id, process_issue returns early.
ProcessIssueSkipped ==
    /\ pc = "process_issues"
    /\ pos <= Len(batch)
    /\ ProcessIssueOutcome(batch[pos]) = "skipped"
    /\ outcomes' = Append(outcomes, "skipped")
    /\ pos' = pos + 1
    /\ UNCHANGED << issue_data, pc, batch, durVars, effortVars, callVars, fetchVars >>

\* An exception leaves process_issue; the for loop of line 685 has no
\* handler, so it leaves process_issues too.
ProcessIssueRaises ==
    /\ pc = "process_issues"
    /\ pos <= Len(batch)
    /\ ProcessIssueOutcome(batch[pos]) = "raised"
    /\ pc' = "raised"
    /\ UNCHANGED << issue_data, batch, pos, outcomes, durVars, effortVars, callVars, fetchVars >>

\* The for loop of line 685 is exhausted.
ProcessIssuesReturn ==
    /\ pc = "process_issues"
    /\ pos > Len(batch)
    /\ pc' = "batch_done"
    /\ UNCHANGED << issue_data, batch, pos, outcomes, durVars, effortVars, callVars, fetchVars >>

GoodIssue ==
    [created |-> Iso(0, TRUE, Ist),
     histories |-> << [created |-> Iso(Day, TRUE, Ist),
                       items |-> << StatusItem("Open", "In Progress") >>] >>]

\* The responses of the tracker for one issue id: a good issue, a failed
\* fetch, a malformed creation timestamp, timestamps without fractional
\* seconds, a malformed and a missing changelog timestamp, and a sprint field
\* whose strings carry no 'name='.
BatchResponses ==
    { [fetched |-> TRUE, issue |-> GoodIssue, sprint |-> "list with name="],
      [fetched |-> FALSE, issue |-> GoodIssue, sprint |-> "absent"],
      [fetched |-> TRUE, issue |-> [GoodIssue EXCEPT !.created = Malformed],
       sprint |-> "absent"],
      [fetched |-> TRUE, issue |-> [GoodIssue EXCEPT !.created = Iso(0, FALSE, Ist)],
       sprint |-> "absent"],
      [fetched |-> TRUE,
       issue |-> [GoodIssue EXCEPT !.histories[1].created = Malformed],
       sprint |-> "absent"],
      [fetched |-> TRUE,
       issue |-> [GoodIssue EXCEPT !.histories[1].created = NullTime],
       sprint |-> "absent"],
      [fetched |-> TRUE, issue |-> GoodIssue, sprint |-> "list without name="] }

BatchInit ==
    /\ Idle
    /\ NoFetch
    /\ NoCall
    /\ issue_data = GoodIssue
    /\ pc = "process_issues"
    /\ batch \in SeqsUpTo(BatchResponses, MaxBatch)

BatchNext ==
    \/ ProcessIssueDone
    \/ ProcessIssueSkipped
    \/ ProcessIssueRaises
    \/ ProcessIssuesReturn

SpecBatch == BatchInit /\ [][BatchNext]_vars

(***************************************************************************)
(* Properties of the duration pipeline (checked under Spec).               *)
(***************************************************************************)
Parses(change) == strptime_result(change.created) = "ok"

AllParse ==
    /\ strptime_result(issue_data.created) = "ok"
    /\ \A i \in 1..Len(StatusChangesOf(issue_data)) : Parses(StatusChangesOf(issue_data)[i])

Returned == pc \in {"calculate_transition_data", "done"}

DurationValues == [i \in 1..Len(durations) |-> durations[i].duration]

\* C1: when the creation timestamp and every status-change timestamp parse
\* and there is at least one status change, the durations returned by
\* calculate_durations sum to the instant of the last status change in
\* changelog order minus the creation instant, whatever the order of the
\* timestamps.
C1_TelescopingSum ==
    (Returned /\ StatusChangesOf(issue_data) # << >> /\ AllParse) =>
        LET changes == StatusChangesOf(issue_data)
        IN SumSeq(DurationValues) =
               strptime(changes[Len(changes)].created) - strptime(issue_data.created)

\* C1 witness: two parsed events out of chronological order have been summed.
C1_Witness ==
    /\ pc = "done"
    /\ AllParse
    /\ Len(durations) = 2
    /\ durations[2].duration < 0

C2Issue ==
    [created |-> Iso(0, FALSE, Ist),
     histories |-> << [created |-> Iso(Day, FALSE, Ist),
                       items |-> << StatusItem("Open", "In Progress") >>] >>]

\* C2: for the issue created at 2024-01-01T00:00:00+05:30 with the one status
\* change Open -> In Progress at 2024-01-02T00:00:00+05:30, calculate_durations
\* returns the single record (Open, In Progress, 24 h), whose components are
\* rounded_days = 1 and total_hours = 24.
C2_Scenario24h ==
    (issue_data = C2Issue /\ pc \notin {"calculate_durations", "loop"}) =>
        /\ pc # "raised"
        /\ durations = << [from |-> "Open", to |-> "In Progress", duration |-> 24 * Hour] >>
        /\ calculate_duration_components(durations[1].duration) = << 1, 24 >>

\* C3: an iteration of calculate_durations whose timestamp cannot be parsed
\* (malformed, or null) emits no record, keeps the cursor, moves on to the
\* next event and does not raise.
C3_ParseFailureSkipped ==
    [][ (pc = "loop" /\ k <= Len(status_changes) /\ ~Parses(status_changes[k])) =>
            /\ pc' = "loop"
            /\ k' = k + 1
            /\ durations' = durations
            /\ last_timestamp' = last_timestamp ]_vars

ParsedChanges == SelectSeq(status_changes, Parses)

KeyOf(record) == << record.from, record.to >>

RECURSIVE KeyTotal(_, _)
KeyTotal(records, key) ==
    IF records = << >> THEN 0
    ELSE (IF KeyOf(Head(records)) = key THEN Head(records).duration ELSE 0)
         + KeyTotal(Tail(records), key)

\* C10: the records follow the changelog order of the parsed events, each
\* carries exactly the signed difference between its event's instant and the
\* cursor (negative when the event is earlier), and the total of every
\* (from, to) key is the signed sum of its records' durations.
C10_SignedDurationsKept ==
    /\ pc \in {"loop", "calculate_transition_data", "done"} =>
          \A i \in 1..Len(durations) :
              /\ i <= Len(ParsedChanges)
              /\ durations[i].from = ParsedChanges[i].fromString
              /\ durations[i].to = ParsedChanges[i].toString
              /\ durations[i].duration =
                     strptime(ParsedChanges[i].created)
                     - (IF i = 1 THEN strptime(issue_data.created)
                        ELSE strptime(ParsedChanges[i - 1].created))
    /\ pc = "done" =>
          /\ DOMAIN transition_durations = { KeyOf(durations[i]) : i \in 1..Len(durations) }
          /\ \A key \in DOMAIN transition_durations :
                 transition_durations[key] = KeyTotal(durations, key)

\* C10 witness: a record with a negative duration was aggregated into a key
\* whose total is negative.
C10_Witness ==
    /\ pc = "done"
    /\ \E i \in 1..Len(durations) :
           /\ durations[i].duration < 0
           /\ transition_durations[KeyOf(durations[i])] < 0

\* Lemma used by process_issue's model: calculate_durations ends raising
\* exactly on the documents CalculateDurationsRaises names.
DurationsRaiseAsPredicted ==
    pc \in {"raised", "calculate_transition_data", "done"} =>
        ((pc = "raised") <=> CalculateDurationsRaises(issue_data))

(***************************************************************************)
(* Properties of process_issues (checked under SpecBatch).                 *)
(***************************************************************************)
\* C4: a parsing failure in the processing of issue i does not keep the
\* issues i+1..n from being processed: when process_issues is over, by
\* returning or by an exception, its loop has reached every issue of the batch.
C4_BatchCompletes ==
    pc \in {"batch_done", "raised"} => pos >= Len(batch)

(***************************************************************************)
(* Properties of accumulate_effort_per_status (checked under SpecEffort).  *)
(***************************************************************************)
InstantOf(ts) == ts.local - ts.off

RECURSIVE SumOver(_, _)
SumOver(f, S) ==
    IF S = {} THEN 0
    ELSE LET x == CHOOSE y \in S : TRUE
         IN f[x] + SumOver(f, S \ {x})

BucketSum(buckets) == SumOver(buckets, DOMAIN buckets)

\* A step of the worklog loop; worklog' is the entry it handles.
Attributes == pc = "worklogs" /\ worklogs_seen' = worklogs_seen + 1

\* The textual and the chronological order agree on worklog date w against
\* every entry of the timeline.
OrdersAgree(w) ==
    \A i \in 1..Len(status_change_dates) :
        DateGeq(w, status_change_dates[i].date)
            <=> InstantOf(w) >= InstantOf(status_change_dates[i].date)

NotOlderThan(w) ==
    { i \in 1..Len(status_change_dates) :
          InstantOf(w) >= InstantOf(status_change_dates[i].date) }

LastOf(S) == CHOOSE i \in S : \A j \in S : j <= i

\* C5: for an issue with at least one status change, a worklog dated at or
\* after the first timeline timestamp t0 raises the sum of the buckets by
\* exactly its own time, so that the buckets sum to the worklogs' total.
C5_EffortConserved ==
    [][ (/\ Attributes
         /\ StatusChangesOf(issue_data) # << >>
         /\ OrdersAgree(worklog'.created)
         /\ InstantOf(worklog'.created) >= InstantOf(status_change_dates[1].date)) =>
            BucketSum(time_spent_per_status') =
                BucketSum(time_spent_per_status) + worklog'.timeSpentSeconds ]_vars

\* C6: a worklog's time is added to exactly one bucket, that of the last
\* timeline entry (in event order) whose timestamp is less than or equal to
\* the worklog's, the bound being inclusive.
C6_LastEntryNotAfter ==
    [][ (/\ Attributes
         /\ OrdersAgree(worklog'.created)
         /\ NotOlderThan(worklog'.created) # {}) =>
            LET status == status_change_dates[LastOf(NotOlderThan(worklog'.created))].status
            IN /\ status \in DOMAIN time_spent_per_status
               /\ time_spent_per_status' =
                      [time_spent_per_status EXCEPT ![status] = @ + worklog'.timeSpentSeconds]
       ]_vars

\* C7: for an issue with at least one status change, a worklog older than
\* every timeline entry is added to the bucket of the fromString of the first
\* status change and is not discarded.
C7_EarlyWorklogToInitial ==
    [][ (/\ Attributes
         /\ StatusChangesOf(issue_data) # << >>
         /\ OrdersAgree(worklog'.created)
         /\ NotOlderThan(worklog'.created) = {}) =>
            LET status == StatusChangesOf(issue_data)[1].fromString
            IN /\ status \in DOMAIN time_spent_per_status
               /\ time_spent_per_status' =
                      [time_spent_per_status EXCEPT ![status] = @ + worklog'.timeSpentSeconds]
       ]_vars

\* C8: the returned mapping has a key for the toString of every status
\* change and for the fromString of the first one; every value is >= 0 and a
\* status that no worklog was attributed to has the value 0.
C8_EveryStatusHasBucket ==
    (pc \in {"worklogs", "effort_done"} /\ StatusChangesOf(issue_data) # << >>) =>
        LET changes == StatusChangesOf(issue_data)
        IN /\ \A i \in 1..Len(changes) : changes[i].toString \in DOMAIN time_spent_per_status
           /\ changes[1].fromString \in DOMAIN time_spent_per_status
           /\ \A status \in DOMAIN time_spent_per_status :
                  /\ time_spent_per_status[status] >= 0
                  /\ (worklogs_seen = 0 \/ (worklogs_seen = 1 /\ status # current_status))
                         => time_spent_per_status[status] = 0

\* The scan of lines 295-299 on absolute instants.
RECURSIVE ChronologicalScan(_, _, _, _)
ChronologicalScan(timeline, i, w, fallback) ==
    IF i = 0 THEN fallback
    ELSE IF InstantOf(w) >= InstantOf(timeline[i].date) THEN timeline[i].status
    ELSE ChronologicalScan(timeline, i - 1, w, fallback)

\* C9: the status chosen for a worklog is the one the scan chooses when the
\* timestamps are compared as absolute instants, whatever their UTC offsets.
C9_ComparedAsInstants ==
    (pc \in {"worklogs", "effort_done"} /\ worklogs_seen > 0) =>
        current_status = ChronologicalScan(status_change_dates, Len(status_change_dates),
                                           worklog.created, initial_status)

\* The positions (history, item) of the changelog that hold a status item.
StatusPositions ==
    { p \in (1..Len(issue_data.histories)) \X (1..3) :
          /\ p[2] <= Len(issue_data.histories[p[1]].items)
          /\ issue_data.histories[p[1]].items[p[2]].field = "status" }

SkippedPositions ==
    { p \in StatusPositions :
          strptime_result(issue_data.histories[p[1]].created) = "ValueError" }

EmittingPositions ==
    { p \in StatusPositions :
          strptime_result(issue_data.histories[p[1]].created) = "ok" }

ChangelogBefore(p, q) == p[1] < q[1] \/ (p[1] = q[1] /\ p[2] < q[2])

RankOf(p) == Cardinality({ q \in EmittingPositions : ChangelogBefore(q, p) }) + 1

C12_NoDataYieldsEmpty ==
    StatusPositions = {} =>
        /\ pc # "raised"
        /\ durations = << >>
        /\ last_timestamp = 0
        /\ transition_durations = EmptyMap
        /\ transition_execution_times = EmptyMap
        /\ status_change_dates = << >>
        /\ time_spent_per_status = EmptyMap

\* C12 witness: calculate_durations and calculate_transition_data have
\* returned on an issue whose creation timestamp does not parse and whose
\* histories hold only items of another field.
C12_Witness ==
    /\ pc = "done"
    /\ strptime_result(issue_data.created) # "ok"
    /\ issue_data.histories # << >>
    /\ StatusPositions = {}
    /\ durations = << >>
    /\ transition_durations = EmptyMap

\* C12, the effort side: worklogs have been attributed on an issue without
\* status items and the mapping returned is empty.
C12_EffortReached ==
    /\ pc = "effort_done"
    /\ issue_data.histories # << >>
    /\ StatusPositions = {}
    /\ worklogs_seen >= 2
    /\ seconds_seen > 0
    /\ time_spent_per_status = EmptyMap

KeysOf(records) == { KeyOf(records[i]) : i \in 1..Len(records) }

KeyCount(records, key) == Cardinality({ i \in 1..Len(records) : KeyOf(records[i]) = key })

\* C13: for every list of transition records, calculate_transition_data
\* returns exactly one entry per distinct exact (from, to) pair of the list
\* (pairs that differ in case or in surrounding blanks are distinct); the
\* entry's total is the sum of the durations of the records with that pair
\* and its count is the number of such records.
C13_OneEntryPerExactPair ==
    pc = "done" =>
        /\ DOMAIN transition_durations = KeysOf(durations)
        /\ DOMAIN transition_execution_times = KeysOf(durations)
        /\ \A key \in KeysOf(durations) :
               /\ transition_durations[key] = KeyTotal(durations, key)
               /\ transition_execution_times[key] = KeyCount(durations, key)

\* C13 witness: the spec's scenario, two (Open, Reopened) records of 3600 s
\* and 7200 s next to a record whose pair differs only by case, aggregated to
\* a total of 10800 s and a count of 2.
C13_Witness ==
    /\ pc = "done"
    /\ Len(durations) = 3
    /\ durations[1] = [from |-> "Open", to |-> "Reopened", duration |-> 3600]
    /\ durations[2] = [from |-> "open", to |-> "Reopened", duration |-> 3600]
    /\ durations[3] = [from |-> "Open", to |-> "Reopened", duration |-> 7200]
    /\ transition_durations[<< "Open", "Reopened" >>] = 10800
    /\ transition_execution_times[<< "Open", "Reopened" >>] = 2
    /\ transition_execution_times[<< "open", "Reopened" >>] = 1

C15_TotalHours ==
    (pc = "returned" /\ fn = "calculate_duration_components") =>
        LET s == arg
            total_hours == result[2]
        IN /\ total_hours >= 0
           /\ s <= 0 => total_hours = 0
           /\ (0 < s /\ s < 2 * 3600) => total_hours = 1
           /\ s >= 3600 =>
                  /\ total_hours * 3600 <= s
                  /\ s < (total_hours + 1) * 3600

\* C15 witness: a duration of 59 seconds has been reported as one hour.
C15_Witness ==
    /\ pc = "returned"
    /\ fn = "calculate_duration_components"
    /\ arg = 59
    /\ result[2] = 1

\* The seconds a unit word stands for.
UnitSeconds(unit) ==
    CASE unit = "year" -> 365 * 86400
      [] unit = "month" -> 30 * 86400
      [] unit = "week" -> 7 * 86400
      [] unit = "day" -> 86400
      [] unit = "hour" -> 3600
      [] unit = "minute" -> 60
      [] unit = "second" -> 1

RenderedSeconds(parts) ==
    SumSeq([i \in 1..Len(parts) |-> parts[i].count * UnitSeconds(parts[i].unit)])

\* The components are listed from the largest unit to the smallest, each at
\* most once, with a count of at least 1 and the suffix 's' unless the count
\* is 1.
WellFormedParts(parts, units) ==
    /\ \A i \in 1..Len(parts) :
           /\ parts[i].unit \in units
           /\ parts[i].count >= 1
           /\ (parts[i].suffix = "") <=> (parts[i].count = 1)
           /\ parts[i].suffix \in {"", "s"}
    /\ \A i, j \in 1..Len(parts) :
           i < j => UnitSeconds(parts[i].unit) > UnitSeconds(parts[j].unit)

\* The seconds rendered by the components of units smaller than the given
\* one.
BelowUnit(parts, unit) ==
    SumSeq([i \in 1..Len(parts) |->
               IF UnitSeconds(parts[i].unit) < UnitSeconds(unit)
               THEN parts[i].count * UnitSeconds(parts[i].unit) ELSE 0])

\* C17: for every duration the aggregation can hand to format_duration_days,
\* negative totals included, the rendering is '0 seconds' if and only if the
\* duration is zero, and otherwise lists in the order day, hour, minute,
\* second exactly the non-zero components of the duration's decomposition
\* into days of 24 hours, hours, minutes and seconds, with the singular
\* suffix for a count of 1; 90061 s renders '1 day, 1 hour, 1 minute,
\* 1 second'.
C17_DaysRendering ==
    (pc = "returned" /\ fn = "format_duration_days") =>
        /\ (result = ZeroSeconds) <=> (arg = 0)
        /\ arg # 0 =>
               /\ WellFormedParts(result, {"day", "hour", "minute", "second"})
               /\ RenderedSeconds(result) = (IF arg < 0 THEN 0 - arg ELSE arg)
               /\ BelowUnit(result, "day") < 86400
               /\ BelowUnit(result, "hour") < 3600
               /\ BelowUnit(result, "minute") < 60
        /\ arg = 90061 =>
               result = << Part(1, "day"), Part(1, "hour"),
                           Part(1, "minute"), Part(1, "second") >>

\* C18: for a non-negative duration of s seconds format_duration emits
\* components of the units year, month, week, day, hour, minute, second in
\* that order whose count x unit-length sum to s, every count at least 1,
\* what remains after each unit smaller than that unit, the suffix singular
\* exactly for a count of 1, and '0 seconds' exactly when s = 0.
C18_GreedyDecomposition ==
    (pc = "returned" /\ fn = "format_duration" /\ arg >= 0) =>
        /\ (result = ZeroSeconds) <=> (arg = 0)
        /\ arg > 0 =>
               /\ WellFormedParts(result, { time_units[i].unit : i \in 1..Len(time_units) })
               /\ RenderedSeconds(result) = arg
               /\ \A i \in 1..Len(time_units) :
                      BelowUnit(result, time_units[i].unit) < time_units[i].seconds

\* C18 witness: a duration with a component in each of the seven units has
\* been rendered.
C18_Witness ==
    /\ pc = "returned"
    /\ fn = "format_duration"
    /\ arg = (365 + 30 + 7 + 1) * 86400 + 3600 + 60 + 1
    /\ Len(result) = 7
    /\ \A i \in 1..7 : result[i] = Part(1, time_units[i].unit)

\* C19: for hours given as a whole number t >= 0 of seconds,
\* format_hours_minutes renders floor(t / 3600) as 'Hh' and
\* floor((t mod 3600) / 60) as 'Mm', leaves out a part that is zero, and
\* renders '0m' exactly when both are zero.
C19_HoursMinutes ==
    (pc = "returned" /\ fn = "format_hours_minutes") =>
        LET hours_part == arg \div 3600
            minutes_part == (arg % 3600) \div 60
        IN result =
               IF hours_part = 0 /\ minutes_part = 0
               THEN << [count |-> 0, unit |-> "m"] >>
               ELSE (IF hours_part > 0
                     THEN << [count |-> hours_part, unit |-> "h"] >> ELSE << >>)
                    \o (IF minutes_part > 0
                        THEN << [count |-> minutes_part, unit |-> "m"] >> ELSE << >>)

\* The integer nearest to seconds / (6 * 3600), a tie going to the even one.
NearestWorkday(seconds, days) ==
    LET distance == IF seconds >= days * 6 * 3600
                    THEN seconds - days * 6 * 3600
                    ELSE days * 6 * 3600 - seconds
    IN /\ distance <= 3 * 3600
       /\ distance = 3 * 3600 => days % 2 = 0

\* C16: calculate_days_from_hours returns hours / 6 rounded to the nearest
\* integer, a tie going to the even one (3 h -> 0, 9 h -> 2, 15 h -> 2),
\* with no floor or ceiling case; append_effort_data computes the days of
\* the logged effort by the same rule.
C16_WorkdaysRounded ==
    /\ (pc = "returned" /\ fn = "calculate_days_from_hours") =>
           /\ NearestWorkday(arg, result)
           /\ arg = 3 * 3600 => result = 0
           /\ arg = 9 * 3600 => result = 2
           /\ arg = 15 * 3600 => result = 2
    /\ (pc = "returned" /\ fn = "append_effort_data") =>
           NearestWorkday(arg, result.logged_effort_days_rounded)

\* C16 witness: nine hours, a tie between one and two days, have been
\* rounded to two days.
C16_Witness ==
    /\ pc = "returned"
    /\ fn = "calculate_days_from_hours"
    /\ arg = 9 * 3600
    /\ result = 2

\* No sprint name can be extracted from the field: it is absent, of another
\* type than list, dict and text, a dict without a name, or a list none of
\* whose items is a text with 'name='.
NoNameIn(sprint_field) ==
    \/ sprint_field.type \in {"NoneType", "int"}
    \/ sprint_field.type = "dict" /\ sprint_field.name \in {Absent, None}
    \/ /\ sprint_field.type = "list"
       /\ \A i \in 1..Len(sprint_field.items) :
              ~ (sprint_field.items[i].type = "str" /\ HasMarker(sprint_field.items[i].text))

\* C20: whatever the shape of the sprint field, fetch_issue_type_and_sprint
\* and extract_sprint_names return a sprint-name string without raising, and
\* they return 'No Sprint' whenever no name can be extracted.
C20_SprintNeverRaises ==
    (pc = "returned" /\ fn \in {"fetch_issue_type_and_sprint", "extract_sprint_names"}) =>
        /\ result.raised = ""
        /\ NoNameIn(arg) => result.value = << "No Sprint" >>

\* h hours of t seconds rounded to the nearest whole hour, a half rounded
\* up: the rule of append_effort_data, stated on the seconds.
NearestHourHalfUp(seconds) ==
    IF seconds % 3600 >= 1800 THEN seconds \div 3600 + 1 ELSE seconds \div 3600

\* C21: for every non-negative effort of h hours the rounded hours that
\* append_time_spent_data computes are h rounded to the nearest whole hour
\* with halves rounded up, the value append_effort_data's rule (ceil when the
\* fractional part is at least 0.5, floor otherwise) gives for the same h.
C21_RoundedHoursAgree ==
    (pc = "returned" /\ fn = "append_time_spent_data") =>
        /\ result.rounded_hours = NearestHourHalfUp(arg)
        /\ result.rounded_hours
               = append_effort_data(TrueDivide(arg, 3600)).logged_effort_rounded

\* C22: for every record list that calculate_durations produced, the two
\* mappings calculate_transition_data returns have the same keys, every
\* count is at least 1, the counts add up to the number of records and the
\* totals add up to the sum of the records' durations, which is the last
\* event's instant minus the creation instant when every timestamp parsed.
C22_AggregationConserves ==
    pc = "done" =>
        /\ DOMAIN transition_durations = DOMAIN transition_execution_times
        /\ \A key \in DOMAIN transition_execution_times :
               transition_execution_times[key] >= 1
        /\ SumOver(transition_execution_times, DOMAIN transition_execution_times)
               = Len(durations)
        /\ SumOver(transition_durations, DOMAIN transition_durations)
               = SumSeq(DurationValues)
        /\ (AllParse /\ StatusChangesOf(issue_data) # << >>) =>
               LET changes == StatusChangesOf(issue_data)
               IN SumOver(transition_durations, DOMAIN transition_durations)
                      = strptime(changes[Len(changes)].created)
                        - strptime(issue_data.created)

\* C22 witness: three parsed events, two of them of the same pair, have been
\* aggregated into two keys.
C22_Witness ==
    /\ pc = "done"
    /\ AllParse
    /\ Len(durations) = 3
    /\ Cardinality(DOMAIN transition_durations) = 2
    /\ \E key \in DOMAIN transition_execution_times :
           transition_execution_times[key] = 2


(***************************************************************************)
(* C23                                                                     *)
(***************************************************************************)
CeilDiv(n, d) == (n + d - 1) \div d

ExpectedRequests(total) ==
    IF CeilDiv(total, max_results) > 1 THEN CeilDiv(total, max_results) ELSE 1

\* Every response so far reported the number total.
SteadyAt(total) ==
    \A i \in 1 .. Len(exchanges) : exchanges[i].data.total = ResponseInt(total)

\* The response of exchange e meets the stop condition, a missing total
\* counting as 0.
StopsAt(e) ==
    e.startAt + 1000 >= (IF e.data.total.kind = "absent" THEN 0 ELSE e.data.total.value)

PagesOf(es) == [i \in 1 .. Len(es) |-> es[i].data.worklogs]

C23_PagingState ==
    /\ \A i \in 1 .. Len(exchanges) : exchanges[i].startAt = 1000 * (i - 1)
    /\ \A i \in 1 .. Len(exchanges) - 1 : ~StopsAt(exchanges[i])
    /\ pc = "fetch_all_worklogs" => \A i \in 1 .. Len(exchanges) : ~StopsAt(exchanges[i])
    /\ pc = "fetched" => /\ Len(exchanges) >= 1
                         /\ StopsAt(exchanges[Len(exchanges)])
                         /\ all_worklogs = Flatten(PagesOf(exchanges))
    /\ \A total \in SteadyTotals :
          SteadyAt(total) =>
             /\ Len(exchanges) <= ExpectedRequests(total)
             /\ pc = "fetched" => Len(exchanges) = ExpectedRequests(total)

\* C23: fetch_all_worklogs requests the pages at startAt 0, 1000, 2000, ...
\* in that order and returns after the first response with
\* startAt + 1000 >= total (a missing total counting as 0), never after an
\* earlier one and never going on past it; what it returns is the
\* concatenation of the pages in request order; and against an endpoint that
\* reports the same total on every page it does return, after exactly
\* max(1, ceil(total / 1000)) requests.
C23_Pagination ==
    /\ [] C23_PagingState
    /\ \A total \in SteadyTotals : <> (pc = "fetched" \/ ~SteadyAt(total))

\* A call against an endpoint reporting 2001 on each page has returned after
\* three requests with pages of different content.
C23_Witness ==
    /\ pc = "fetched"
    /\ SteadyAt(2001)
    /\ Len(exchanges) = 3
    /\ all_worklogs = << "w2", "w3", "w1" >>

====
